---- MODULE Spec2Model ----
(***************************************************************************)
(* Model of the Streamlit sales dashboard script app.py.                   *)
(*                                                                         *)
(* One run of the script is a sequence of steps: load the table through    *)
(* the st.cache_data loaders, stop at the gate when no table was loaded,   *)
(* calculate_metrics, the three plot_* functions (each calling its         *)
(* process_* transform), and the Refresh button.  The cache, the widget    *)
(* values and the clock survive from one run to the next.                  *)
(*                                                                         *)
(* pandas is modelled by what it does to the tables the script hands it    *)
(* (pandas 2.2 semantics): indexing a missing column raises KeyError,      *)
(* melt raises KeyError naming the missing id_vars/value_vars, sum skips   *)
(* NaN, and adding a number to a string raises TypeError.                  *)
(***************************************************************************)
EXTENDS Integers, Sequences, FiniteSets, TLC

(***************************************************************************)
(* Tables                                                                  *)
(***************************************************************************)

\* app.py:197
all_months == <<"Jan", "Feb", "Mar", "Apr", "May", "Jun",
                "Jul", "Aug", "Sep", "Oct", "Nov", "Dec">>

MonthSet == {all_months[i] : i \in 1..Len(all_months)}

KeyColumns == {"Scenario", "Year", "Account", "business_unit"}

AllColumns == KeyColumns \cup MonthSet

\* A month cell: a number, a non-numeric string, or NaN (a coerced string).
Num(n) == [kind |-> "num", val |-> n]

Str == [kind |-> "str", val |-> 0]

NaN == [kind |-> "nan", val |-> 0]

MonthIndex(m) == CHOOSE i \in 1..Len(all_months) : all_months[i] = m

\* A full-width row; months beyond Len(cells) hold 0.
MakeRow(s, y, a, b, cells) ==
    [c \in AllColumns |->
        CASE c = "Scenario" -> s
          [] c = "Year" -> y
          [] c = "Account" -> a
          [] c = "business_unit" -> b
          [] OTHER -> IF MonthIndex(c) <= Len(cells)
                      THEN cells[MonthIndex(c)] ELSE Num(0)]

\* A DataFrame: its column set and its rows, each a function on the columns.
Frame(cols, rows) == [columns |-> cols, rows |-> rows]

\* pd.DataFrame(): no columns, no rows.
EmptyDataFrame == Frame({}, <<>>)

DropColumns(t, drop) ==
    Frame(t.columns \ drop,
          [i \in 1..Len(t.rows) |-> [c \in t.columns \ drop |-> t.rows[i][c]]])

\* DataFrame.empty
IsEmpty(f) == Len(f.rows) = 0 \/ f.columns = {}

(***************************************************************************)
(* Python results: a returned value or a raised exception                  *)
(***************************************************************************)

Ok(v) == [ok |-> TRUE, val |-> v, exc |-> "", cols |-> {}]

Raise(e, cs) == [ok |-> FALSE, val |-> 0, exc |-> e, cols |-> cs]

(***************************************************************************)
(* pandas operations used by the script                                    *)
(***************************************************************************)

Abs(n) == IF n < 0 THEN -n ELSE n

\* Sum of the numeric cells of a sequence of cells (strings and NaN add 0).
RECURSIVE SumNum(_)
SumNum(cs) ==
    IF cs = <<>> THEN 0
    ELSE (IF Head(cs).kind = "num" THEN Head(cs).val ELSE 0) + SumNum(Tail(cs))

CellKinds(cs) == {cs[i].kind : i \in 1..Len(cs)} \ {"nan"}

\* sum() of a column of cells: NaN is skipped, numbers add, strings
\* concatenate, and a number plus a string raises TypeError.
PySum(cs) ==
    IF CellKinds(cs) = {"num", "str"} THEN Raise("TypeError", {})
    ELSE IF CellKinds(cs) = {"str"} THEN Ok(Str)
    ELSE Ok(Num(SumNum(cs)))

\* abs() of a Python value
PyAbs(c) ==
    IF c.kind = "str" THEN Raise("TypeError", {})
    ELSE IF c.kind = "nan" THEN Ok(NaN)
    ELSE Ok(Num(Abs(c.val)))

\* CoerceAbs without the .abs()
CoerceAbs_NoAbs(c) == IF c.kind = "num" THEN c ELSE NaN

\* pd.to_numeric(col, errors='coerce').abs() on one cell
CoerceAbs(c) == IF c.kind = "num" THEN Num(Abs(c.val)) ELSE NaN

SeqToSet(s) == {s[i] : i \in 1..Len(s)}

\* melt leaving out the first value column.
melt_SkipFirst(f, id_vars, value_vars) ==
    LET missing == (SeqToSet(id_vars) \cup SeqToSet(value_vars)) \ f.columns
        N == Len(f.rows)
        K == IF Len(value_vars) = 0 THEN 0 ELSE Len(value_vars) - 1
        long(k) == LET m == value_vars[((k - 1) \div N) + 2]
                       r == f.rows[((k - 1) % N) + 1]
                   IN  [c \in SeqToSet(id_vars) \cup {"month", "sales"} |->
                          IF c = "month" THEN m
                          ELSE IF c = "sales" THEN r[m]
                          ELSE r[c]]
    IN  IF missing # {} THEN Raise("KeyError", missing)
        ELSE Ok(Frame(SeqToSet(id_vars) \cup {"month", "sales"},
                      [k \in 1..(N * K) |-> long(k)]))

\* DataFrame.melt(id_vars, value_vars, var_name='month', value_name='sales'):
\* one long row per value column and row, column-major.
melt(f, id_vars, value_vars) ==
    LET missing == (SeqToSet(id_vars) \cup SeqToSet(value_vars)) \ f.columns
        N == Len(f.rows)
        K == Len(value_vars)
        long(k) == LET m == value_vars[((k - 1) \div N) + 1]
                       r == f.rows[((k - 1) % N) + 1]
                   IN  [c \in SeqToSet(id_vars) \cup {"month", "sales"} |->
                          IF c = "month" THEN m
                          ELSE IF c = "sales" THEN r[m]
                          ELSE r[c]]
    IN  IF missing # {} THEN Raise("KeyError", missing)
        ELSE Ok(Frame(SeqToSet(id_vars) \cup {"month", "sales"},
                      [k \in 1..(N * K) |-> long(k)]))

\* The strings of the modelled tables in Python's string order.
StringOrder == <<"Actuals", "Budget", "Forecast", "Hardware", "Marketing",
                 "Operations", "Rent", "Sales", "Software">>

Rank(col, v) ==
    IF col = "Year" THEN v
    ELSE CHOOSE i \in 1..Len(StringOrder) : StringOrder[i] = v

\* Lexicographic order of two group keys on the key columns ks.
KeyLeq(x, y, ks) ==
    \E i \in 1..(Len(ks) + 1) :
        /\ \A j \in 1..(i - 1) : x[ks[j]] = y[ks[j]]
        /\ \/ i = Len(ks) + 1
           \/ Rank(ks[i], x[ks[i]]) < Rank(ks[i], y[ks[i]])

RECURSIVE SortKeys(_, _)
SortKeys(S, ks) ==
    IF S = {} THEN <<>>
    ELSE LET m == CHOOSE x \in S : \A y \in S : KeyLeq(x, y, ks)
         IN  <<m>> \o SortKeys(S \ {m}, ks)

\* df.groupby(ks)['sales'].sum().reset_index(): one row per distinct key,
\* sorted by key; the group's cells are summed as PySum does.
groupby_sum(f, ks) ==
    LET keyOf(r) == [c \in SeqToSet(ks) |-> r[c]]
        keys == SortKeys({keyOf(f.rows[i]) : i \in 1..Len(f.rows)}, ks)
        cellsOf(key) ==
            LET sel == SelectSeq(f.rows, LAMBDA r : keyOf(r) = key)
            IN  [i \in 1..Len(sel) |-> sel[i]["sales"]]
        total(key) == PySum(cellsOf(key))
        out(key) == [c \in SeqToSet(ks) \cup {"sales"} |->
                        IF c = "sales" THEN total(key).val ELSE key[c]]
    IN  IF \E i \in 1..Len(keys) : ~total(keys[i]).ok
        THEN Raise("TypeError", {})
        ELSE Ok(Frame(SeqToSet(ks) \cup {"sales"},
                      [i \in 1..Len(keys) |-> out(keys[i])]))

\* frame[all_months].sum().sum(): column sums, then the sum of those sums.
frame_sum(rows) ==
    LET colsum(m) == PySum([i \in 1..Len(rows) |-> rows[i][m]])
    IN  IF \E i \in 1..Len(all_months) : ~colsum(all_months[i]).ok
        THEN Raise("TypeError", {})
        ELSE PySum([i \in 1..Len(all_months) |-> colsum(all_months[i]).val])

(***************************************************************************)
(* The view transforms and the metric calculator                           *)
(***************************************************************************)

NoError == [exc |-> "", cols |-> {}]

\* What a try/except wrapper hands back: the result of the try body, or the
\* fallback together with the error st.error reports.
Caught(r, fallback) ==
    IF r.ok THEN [value |-> r.val, error |-> NoError]
    ELSE [value |-> fallback, error |-> [exc |-> r.exc, cols |-> r.cols]]

\* The try body of process_sales_data_by_unit.
SalesByUnitBody(df) ==
    IF "Year" \notin df.columns THEN Raise("KeyError", {"Year"})
    ELSE IF "Account" \notin df.columns THEN Raise("KeyError", {"Account"})
    ELSE LET sales_df == Frame(df.columns,
                 SelectSeq(df.rows,
                     LAMBDA r : r["Year"] = 2023 /\ r["Account"] = "Sales"))
             melted_df == melt(sales_df, <<"Scenario", "business_unit">>,
                               all_months)
         IN  IF ~melted_df.ok THEN melted_df
             ELSE groupby_sum(melted_df.val, <<"Scenario", "business_unit">>)

process_sales_data_by_unit(df) == Caught(SalesByUnitBody(df), EmptyDataFrame)

\* The try body of process_monthly_sales_data.
MonthlySalesBody(df) ==
    IF "Year" \notin df.columns THEN Raise("KeyError", {"Year"})
    ELSE IF "Account" \notin df.columns THEN Raise("KeyError", {"Account"})
    ELSE IF "business_unit" \notin df.columns
         THEN Raise("KeyError", {"business_unit"})
    ELSE LET sales_df == Frame(df.columns,
                 SelectSeq(df.rows,
                     LAMBDA r : /\ r["Year"] = 2023
                                /\ r["Account"] = "Sales"
                                /\ r["business_unit"] = "Software"))
         IN  melt(sales_df, <<"Scenario">>, all_months)

process_monthly_sales_data(df) == Caught(MonthlySalesBody(df), EmptyDataFrame)

\* The try body of process_yearly_account_data.
YearlyAccountBody(df) ==
    IF "Scenario" \notin df.columns THEN Raise("KeyError", {"Scenario"})
    ELSE IF "Account" \notin df.columns THEN Raise("KeyError", {"Account"})
    ELSE LET month_cols == SelectSeq(all_months, LAMBDA m : m \in df.columns)
             kept == SelectSeq(df.rows,
                         LAMBDA r : /\ r["Scenario"] = "Actuals"
                                    /\ r["Account"] # "Sales")
             actuals_df == Frame(df.columns,
                 [i \in 1..Len(kept) |->
                     [c \in df.columns |->
                         IF c \in MonthSet THEN CoerceAbs(kept[i][c])
                         ELSE kept[i][c]]])
             melted_df == melt(actuals_df, <<"Account", "Year">>, month_cols)
         IN  IF ~melted_df.ok THEN melted_df
             ELSE groupby_sum(melted_df.val, <<"Account", "Year">>)

process_yearly_account_data(df) ==
    Caught(YearlyAccountBody(df), EmptyDataFrame)

\* The ratios of app.py:487-489, in hundredths.
equity_ratio == 7538

debt_equity == 110

current_ratio == 186

\* ZeroMetrics with the three ratios left at their constants.
ZeroMetrics_KeepRatios ==
    [accounts_receivable |-> 0, accounts_payable |-> 0,
     equity_ratio |-> equity_ratio, debt_equity |-> debt_equity,
     current_ratio |-> current_ratio]

ZeroMetrics ==
    [accounts_receivable |-> 0, accounts_payable |-> 0, equity_ratio |-> 0,
     debt_equity |-> 0, current_ratio |-> 0]

\* The try body of calculate_metrics.
MetricsBody(df) ==
    IF "Account" \notin df.columns THEN Raise("KeyError", {"Account"})
    ELSE IF MonthSet \ df.columns # {}
         THEN Raise("KeyError", MonthSet \ df.columns)
    ELSE LET accounts_receivable ==
                 frame_sum(SelectSeq(df.rows,
                     LAMBDA r : r["Account"] = "Sales"))
             accounts_payable ==
                 frame_sum(SelectSeq(df.rows,
                     LAMBDA r : r["Account"] \in {"Marketing", "Operations"}))
         IN  IF ~accounts_receivable.ok THEN accounts_receivable
             ELSE IF ~accounts_payable.ok THEN accounts_payable
             ELSE IF ~PyAbs(accounts_receivable.val).ok
                  THEN PyAbs(accounts_receivable.val)
             ELSE IF ~PyAbs(accounts_payable.val).ok
                  THEN PyAbs(accounts_payable.val)
             ELSE Ok([accounts_receivable |->
                          PyAbs(accounts_receivable.val).val.val,
                      accounts_payable |->
                          PyAbs(accounts_payable.val).val.val,
                      equity_ratio |-> equity_ratio,
                      debt_equity |-> debt_equity,
                      current_ratio |-> current_ratio])

calculate_metrics(df) == Caught(MetricsBody(df), ZeroMetrics)

(***************************************************************************)
(* Inputs of the model                                                     *)
(***************************************************************************)

\* Python's None and a present value.
None == <<>>

Some(x) == <<x>>

\* Largest number of rows of a table handed to the transforms directly.
MaxRows == 2

\* The clock advances TickSeconds at a time, at most MaxTicks times.
TickSeconds == 150

MaxTicks == 2

\* Key cells (Scenario, Year, Account, business_unit) of the modelled rows.
KeyCombos ==
    { <<"Budget", 2023, "Sales", "Software">>,
      <<"Actuals", 2023, "Sales", "Software">>,
      <<"Actuals", 2023, "Sales", "Hardware">>,
      <<"Actuals", 2022, "Sales", "Software">>,
      <<"Actuals", 2023, "Marketing", "Software">>,
      <<"Actuals", 2022, "Marketing", "Hardware">>,
      <<"Budget", 2023, "Marketing", "Software">>,
      <<"Actuals", 2023, "Operations", "Hardware">>,
      <<"Actuals", 2023, "Rent", "Software">> }

\* Jan and Feb cells of the modelled rows; the other months hold 0.
CellCombos ==
    { <<Num(3), Num(4)>>, <<Num(-5), Num(2)>>, <<Str, Num(7)>> }

RowPool ==
    { MakeRow(k[1], k[2], k[3], k[4], c) : k \in KeyCombos, c \in CellCombos }

TablesUpTo(n) ==
    { Frame(AllColumns, rows) : rows \in UNION { [1..m -> RowPool] : m \in 0..n } }

\* Column sets a table may lack.
DropSets ==
    { {}, {"Scenario"}, {"Year"}, {"Account"}, {"business_unit"}, {"Jan"},
      MonthSet, {"Account", "Jan"} }

\* Tables handed to the transforms directly: every table of at most MaxRows
\* rows, and the tables of at most one row with some columns missing.
ViewTables ==
    TablesUpTo(MaxRows) \cup
    { DropColumns(t, d) : t \in TablesUpTo(1), d \in DropSets }

SalesTable ==
    Frame(AllColumns,
          << MakeRow("Budget", 2023, "Sales", "Software", <<Num(3), Num(4)>>) >>)

NoSalesTable ==
    Frame(AllColumns,
          << MakeRow("Actuals", 2023, "Marketing", "Software",
                     <<Num(-5), Num(2)>>) >>)

\* A Sales row whose January cell is not a number.
DirtyTable ==
    Frame(AllColumns,
          << MakeRow("Budget", 2023, "Sales", "Software", <<Str, Num(7)>>) >>)

\* Tables the spreadsheet may hold when it is fetched.
SourceTables ==
    { SalesTable, NoSalesTable, DirtyTable } \cup
    { DropColumns(SalesTable, d) :
        d \in {{"Scenario"}, {"Year"}, {"Account"}, {"business_unit"}, MonthSet} }

GoodUrl == "https://docs.google.com/spreadsheets/d/sheet-id/edit"

BadUrl == "https://example.com/sheet"

Urls == {"", GoodUrl, BadUrl}

\* '/d/' in sheets_url
HasSheetId(url) == url = GoodUrl

JsonFiles == {"service-account.json"}

\* Uploaded CSV files and what pd.read_csv makes of their bytes.
CsvFiles == {"ledger.csv", "broken.csv"}

CsvContent(file) ==
    IF file = "ledger.csv" THEN Some(NoSalesTable) ELSE None

(***************************************************************************)
(* State                                                                   *)
(***************************************************************************)

VARIABLES
    uploaded_json,  \* sidebar: the uploaded credentials file, or None
    sheets_url,     \* sidebar: the text input
    uploaded_csv,   \* sidebar: the uploaded CSV file, or None
    cache,          \* st.cache_data: key -> [value, stored]
    now,            \* the clock, in seconds
    fetched,        \* the last load ran the body of a cached loader
    df,             \* the loaded table, or None
    error,          \* the loader's error message, or None
    data_source,    \* "Google Sheets", "CSV Upload" or ""
    notice,         \* the message the loading logic showed
    pc,             \* position of the script run
    clicked,        \* this run was started by the Refresh Data button
    metrics,        \* the bundle calculate_metrics returned, or None
    view,           \* what each process_* function returned, or None
    rendered,       \* what was drawn for each computation
    diag,           \* the error st.error reported for each computation
    started         \* the computations begun in this run

inputs == <<uploaded_json, sheets_url, uploaded_csv>>

loaded == <<fetched, df, error, data_source, notice>>

pass == <<metrics, view, rendered, diag, started>>

vars == <<uploaded_json, sheets_url, uploaded_csv, cache, now, fetched, df,
          error, data_source, notice, pc, clicked, metrics, view, rendered,
          diag, started>>

Views == {"process_sales_data_by_unit", "process_monthly_sales_data",
          "process_yearly_account_data"}

Computations == {"calculate_metrics"} \cup Views

(***************************************************************************)
(* The cached loaders                                                      *)
(***************************************************************************)

\* app.py:101, in seconds
SheetsTtl == 300

\* The ttl each st.cache_data decorator declares.
ttl(fn) == IF fn = "load_google_sheets_data" THEN Some(SheetsTtl) ELSE None

SheetsKey(json, url) == [fn |-> "load_google_sheets_data", args |-> <<json, url>>]

CsvKey(file) == [fn |-> "load_csv_data", args |-> <<file>>]

Loaded(t) == [df |-> Some(t), error |-> None]

Failed(msg) == [df |-> None, error |-> Some(msg)]

\* Body of load_google_sheets_data: every outcome the call can have.
GoogleSheetsBody(json, url) ==
    IF ~HasSheetId(url) THEN {Failed("Invalid Google Sheets URL format")}
    ELSE {Failed("APIError")} \cup {Loaded(t) : t \in SourceTables}

\* Body of load_csv_data.
CsvBody(file) ==
    IF CsvContent(file) # None THEN {Loaded(CsvContent(file)[1])}
    ELSE {Failed("ParserError")}

Body(key) ==
    IF key.fn = "load_google_sheets_data"
    THEN GoogleSheetsBody(key.args[1], key.args[2])
    ELSE CsvBody(key.args[1])

\* Fresh with the ttl forgotten: an entry answers every later call.
Fresh_NeverExpires(c, key, t) == key \in DOMAIN c

\* An entry answers a call while it is younger than the function's ttl.
Fresh(c, key, t) ==
    /\ key \in DOMAIN c
    /\ \/ ttl(key.fn) = None
       \/ t - c[key].stored < ttl(key.fn)[1]

\* st.cache_data stores whatever the function returned.
Store(c, key, value, t) ==
    [k \in DOMAIN c \cup {key} |->
        IF k = key THEN [value |-> value, stored |-> t] ELSE c[k]]

\* A call of a function decorated with st.cache_data.
CachedCall(key, result) ==
    IF Fresh(cache, key, now)
    THEN /\ result = cache[key].value
         /\ fetched' = FALSE
         /\ cache' = cache
    ELSE /\ result \in Body(key)
         /\ fetched' = TRUE
         /\ cache' = Store(cache, key, result, now)

AllResults ==
    {Failed(m) : m \in {"Invalid Google Sheets URL format", "APIError",
                        "ParserError"}}
    \cup {Loaded(t) : t \in SourceTables}

EmptyCache == [k \in {} |-> 0]

\* Clear dropping the entries of load_google_sheets_data only.
Clear_SheetsOnly(c) ==
    [k \in {x \in DOMAIN c : x.fn # "load_google_sheets_data"} |-> c[k]]

\* st.cache_data.clear(): every entry of every cached function is dropped.
Clear(c) == [k \in {} |-> c[k]]

(***************************************************************************)
(* One run of the script                                                   *)
(***************************************************************************)

\* A table has the four key columns and at least one month column.
ValidSchema(t) ==
    /\ KeyColumns \subseteq t.columns
    /\ t.columns \cap MonthSet # {}

\* GateStops with a schema check added.
GateStops_Schema(table) == table = None \/ ~ValidSchema(table[1])

\* app.py:172: the only check between loading and the dashboard.
GateStops(table) == table = None

ResetPass ==
    /\ metrics' = None
    /\ view' = [v \in Views |-> None]
    /\ rendered' = [c \in Computations |-> "none"]
    /\ diag' = [c \in Computations |-> NoError]
    /\ started' = {}

\* app.py:152 and 163: the cached call the loading logic makes, if any.
LoadKey ==
    IF uploaded_json # None /\ sheets_url # ""
    THEN Some(SheetsKey(uploaded_json[1], sheets_url))
    ELSE IF uploaded_csv # None THEN Some(CsvKey(uploaded_csv[1]))
    ELSE None

\* app.py:148-191: the data loading logic and the gate.
Load ==
    /\ pc = "load"
    /\ \E result \in AllResults \cup {[df |-> None, error |-> None]} :
        /\ IF LoadKey = None
           THEN /\ result = [df |-> None, error |-> None]
                /\ fetched' = FALSE
                /\ cache' = cache
                /\ data_source' = ""
                /\ notice' = "setup_info"
           ELSE /\ CachedCall(LoadKey[1], result)
                /\ IF LoadKey[1].fn = "load_google_sheets_data"
                   THEN /\ data_source' =
                             IF result.df # None THEN "Google Sheets" ELSE ""
                        /\ notice' =
                             IF result.df # None THEN "success" ELSE "sheets_error"
                   ELSE /\ data_source' =
                             IF result.df # None THEN "CSV Upload" ELSE ""
                        /\ notice' =
                             IF result.df # None THEN "csv_warning" ELSE "csv_error"
        /\ df' = result.df
        /\ error' = result.error
        /\ pc' = IF GateStops(result.df) THEN "stopped" ELSE "metrics"
    /\ ResetPass
    /\ UNCHANGED <<inputs, now, clicked>>

\* app.py:512-562: calculate_metrics and the metric tiles.
CalculateMetrics ==
    /\ pc = "metrics"
    /\ LET r == calculate_metrics(df[1])
       IN  /\ metrics' = Some(r.value)
           /\ diag' = [diag EXCEPT !["calculate_metrics"] = r.error]
    /\ rendered' = [rendered EXCEPT !["calculate_metrics"] = "tiles"]
    /\ started' = started \cup {"calculate_metrics"}
    /\ pc' = "top_right"
    /\ UNCHANGED <<inputs, cache, now, loaded, clicked, view>>

\* Plot with the transform's failure ending the run.
Plot_StopOnError(v, r, next) ==
    /\ view' = [view EXCEPT ![v] = Some(r.value)]
    /\ diag' = [diag EXCEPT ![v] = r.error]
    /\ rendered' = [rendered EXCEPT ![v] =
                        IF r.error # NoError THEN "none"
                        ELSE IF IsEmpty(r.value) THEN "nodata" ELSE "chart"]
    /\ started' = started \cup {v}
    /\ pc' = IF r.error # NoError THEN "stopped" ELSE next
    /\ UNCHANGED <<inputs, cache, now, loaded, clicked, metrics>>

\* A plot_* function: run the transform, then draw the chart or the
\* "No data available" warning.
Plot(v, r, next) ==
    /\ view' = [view EXCEPT ![v] = Some(r.value)]
    /\ diag' = [diag EXCEPT ![v] = r.error]
    /\ rendered' = [rendered EXCEPT ![v] =
                        IF IsEmpty(r.value) THEN "nodata" ELSE "chart"]
    /\ started' = started \cup {v}
    /\ pc' = next
    /\ UNCHANGED <<inputs, cache, now, loaded, clicked, metrics>>

\* app.py:384-418 and 564-565
plot_top_right ==
    /\ pc = "top_right"
    /\ Plot("process_sales_data_by_unit", process_sales_data_by_unit(df[1]),
            "bottom_left")

\* app.py:420-447 and 567-568
plot_bottom_left ==
    /\ pc = "bottom_left"
    /\ Plot("process_monthly_sales_data", process_monthly_sales_data(df[1]),
            "bottom_right")

\* app.py:449-471 and 570-571
plot_bottom_right ==
    /\ pc = "bottom_right"
    /\ Plot("process_yearly_account_data", process_yearly_account_data(df[1]),
            "button")

\* app.py:577-582: the Refresh Data button.
RefreshButton ==
    /\ pc = "button"
    /\ IF clicked
       THEN /\ cache' = Clear(cache)
            /\ pc' = "load"
       ELSE /\ cache' = cache
            /\ pc' = "done"
    /\ clicked' = FALSE
    /\ UNCHANGED <<inputs, now, loaded, pass>>

(***************************************************************************)
(* The user and the clock, between runs                                    *)
(***************************************************************************)

Idle == pc \in {"done", "stopped"}

\* The user changes the sidebar widgets; Streamlit reruns the script.
SetInputs ==
    /\ Idle
    /\ uploaded_json' \in {None} \cup {Some(j) : j \in JsonFiles}
    /\ sheets_url' \in Urls
    /\ uploaded_csv' \in {None} \cup {Some(f) : f \in CsvFiles}
    /\ pc' = "load"
    /\ UNCHANGED <<cache, now, loaded, clicked, pass>>

\* The user clicks Refresh Data, which exists once a run reached it.
ClickRefresh ==
    /\ pc = "done"
    /\ clicked' = TRUE
    /\ pc' = "load"
    /\ UNCHANGED <<inputs, cache, now, loaded, pass>>

Tick ==
    /\ Idle
    /\ now + TickSeconds <= MaxTicks * TickSeconds
    /\ now' = now + TickSeconds
    /\ UNCHANGED <<inputs, cache, loaded, pc, clicked, pass>>

Init ==
    /\ uploaded_json = None
    /\ sheets_url = ""
    /\ uploaded_csv = None
    /\ cache = EmptyCache
    /\ now = 0
    /\ fetched = FALSE
    /\ df = None
    /\ error = None
    /\ data_source = ""
    /\ notice = ""
    /\ pc = "load"
    /\ clicked = FALSE
    /\ metrics = None
    /\ view = [v \in Views |-> None]
    /\ rendered = [c \in Computations |-> "none"]
    /\ diag = [c \in Computations |-> NoError]
    /\ started = {}

Next ==
    \/ Load
    \/ CalculateMetrics
    \/ plot_top_right
    \/ plot_bottom_left
    \/ plot_bottom_right
    \/ RefreshButton
    \/ SetInputs
    \/ ClickRefresh
    \/ Tick

Spec == Init /\ [][Next]_vars

(***************************************************************************)
(* The transforms applied to a table handed to them directly               *)
(***************************************************************************)

InitViews ==
    /\ uploaded_json = None
    /\ sheets_url = ""
    /\ uploaded_csv = None
    /\ cache = EmptyCache
    /\ now = 0
    /\ fetched = FALSE
    /\ df \in {Some(t) : t \in ViewTables}
    /\ error = None
    /\ data_source = ""
    /\ notice = ""
    /\ pc = "metrics"
    /\ clicked = FALSE
    /\ metrics = None
    /\ view = [v \in Views |-> None]
    /\ rendered = [c \in Computations |-> "none"]
    /\ diag = [c \in Computations |-> NoError]
    /\ started = {}

NextViews ==
    \/ CalculateMetrics
    \/ plot_top_right
    \/ plot_bottom_left
    \/ plot_bottom_right

SpecViews == InitViews /\ [][NextViews]_vars

(***************************************************************************)
(* The source cache                                                        *)
(***************************************************************************)

\* C1: when the body of a cached loader runs and fails, the cache is left
\* as it was: no entry is created or replaced for the key.
C1_FailedFetchLeavesCache ==
    [][(pc = "load" /\ fetched' /\ df' = None) => cache' = cache]_vars

C3_RefreshInvalidates ==
    [][/\ (pc = "button" /\ clicked) =>
              /\ DOMAIN cache' = {}
              /\ Clear(cache') = cache'
              /\ pc' = "load"
       /\ (pc = "load" /\ LoadKey # None /\ LoadKey[1] \notin DOMAIN cache) =>
              /\ fetched'
              /\ cache'[LoadKey[1]].stored = now]_vars

\* The refresh action has just cleared a cache whose entry had answered the
\* run's load inside its TTL; the rerun is about to load the same key.
C3_Witness ==
    /\ pc = "load"
    /\ DOMAIN cache = {}
    /\ df # None
    /\ ~fetched
    /\ LoadKey # None

(***************************************************************************)
(* The render pass                                                         *)
(***************************************************************************)

\* The columns each computation reads whatever the table holds.
Reads(c) ==
    CASE c = "calculate_metrics" -> {"Account"} \cup MonthSet
      [] c = "process_sales_data_by_unit" -> KeyColumns \cup MonthSet
      [] c = "process_monthly_sales_data" -> KeyColumns \cup MonthSet
      [] c = "process_yearly_account_data" -> {"Scenario", "Account", "Year"}

\* The position at which each computation runs, and the one after it.
StageOf(c) ==
    CASE c = "calculate_metrics" -> "metrics"
      [] c = "process_sales_data_by_unit" -> "top_right"
      [] c = "process_monthly_sales_data" -> "bottom_left"
      [] c = "process_yearly_account_data" -> "bottom_right"

StageAfter(c) ==
    CASE c = "calculate_metrics" -> "top_right"
      [] c = "process_sales_data_by_unit" -> "bottom_left"
      [] c = "process_monthly_sales_data" -> "bottom_right"
      [] c = "process_yearly_account_data" -> "button"

PassOver == pc \in {"button", "done", "load"}

\* C4 as stated: no computation begins against a table that lacks a required
\* column.
C4_NoComputationOnInvalidTable ==
    (df # None /\ started # {}) => ValidSchema(df[1])

\* C4, amended: a table that lacks a required column passes the gate, which
\* stops the run only when no table was loaded; calculate_metrics and the
\* three view transforms all begin against it in that run; each of them that
\* reads a missing column reports a KeyError naming missing columns, and
\* each that reads none of them reports no KeyError.
C4_InvalidTableReachesEveryComputation ==
    (df # None /\ ~ValidSchema(df[1])) =>
        /\ pc # "stopped"
        /\ PassOver => started = Computations
        /\ \A c \in started :
              IF Reads(c) \ df[1].columns # {}
              THEN /\ diag[c].exc = "KeyError"
                   /\ diag[c].cols # {}
                   /\ diag[c].cols \subseteq Reads(c) \ df[1].columns
              ELSE diag[c].exc # "KeyError"

\* A run over a table without the Account column has finished, every
\* computation having reported the missing column.
C4_Witness ==
    /\ pc = "done"
    /\ df # None
    /\ "Account" \notin df[1].columns
    /\ started = Computations
    /\ \A c \in Computations : diag[c].cols = {"Account"}

\* C5: a computation that fails reports its diagnostic and hands back its
\* fallback (an empty frame, or the all-zero bundle), something is drawn for
\* it, the results of the other computations are left alone, and the run
\* goes on to the next computation; a run that loaded a table is never
\* stopped and ends with all four computations drawn.
C5_FailureStaysInItsView ==
    /\ [](df # None =>
            /\ pc # "stopped"
            /\ PassOver => \A c \in Computations :
                              c \in started /\ rendered[c] # "none")
    /\ [][\A c \in Computations : pc = StageOf(c) =>
            /\ pc' = StageAfter(c)
            /\ c \in started'
            /\ rendered'[c] # "none"
            /\ diag'[c] # NoError =>
                  IF c = "calculate_metrics" THEN metrics' = Some(ZeroMetrics)
                  ELSE view'[c] = Some(EmptyDataFrame)
            /\ \A o \in Views \ {c} : view'[o] = view[o]
            /\ \A o \in Computations \ {c} :
                  rendered'[o] = rendered[o] /\ diag'[o] = diag[o]
            /\ c # "calculate_metrics" => metrics' = metrics]_vars

\* A run has finished in which the sales-by-unit view failed while the
\* metrics were computed and the yearly view was drawn without error.
C5_Witness ==
    /\ pc = "done"
    /\ diag["process_sales_data_by_unit"] # NoError
    /\ diag["calculate_metrics"] = NoError
    /\ metrics[1].accounts_receivable > 0
    /\ diag["process_yearly_account_data"] = NoError
    /\ rendered["process_yearly_account_data"] # "none"

\* C6: the bundle calculate_metrics returns has exactly the five fields,
\* and when the Account column or any month column is absent all five are 0,
\* the error is reported and the run goes on.
C6_MetricsAlwaysPresentable ==
    metrics # None =>
        /\ DOMAIN metrics[1] =
              {"accounts_receivable", "accounts_payable", "equity_ratio",
               "debt_equity", "current_ratio"}
        /\ ({"Account"} \cup MonthSet) \ df[1].columns # {} =>
              /\ \A f \in DOMAIN metrics[1] : metrics[1][f] = 0
              /\ diag["calculate_metrics"].exc = "KeyError"
              /\ pc # "stopped"
              /\ rendered["calculate_metrics"] = "tiles"

\* calculate_metrics has run on a table that has Account but lacks Jan.
C6_Witness ==
    /\ metrics # None
    /\ "Account" \in df[1].columns
    /\ "Jan" \notin df[1].columns
    /\ "Feb" \in df[1].columns
    /\ metrics[1] = ZeroMetrics
    /\ diag["calculate_metrics"].cols = {"Jan"}

\* C7: a table with no Sales rows gives an empty sales-by-unit view and an
\* empty monthly-trend view with no error reported, and a view whose
\* computation failed is never drawn as the "no data" state of an empty one.
C7_EmptyDistinctFromFailed ==
    \A v \in Views : view[v] # None =>
        /\ (/\ v # "process_yearly_account_data"
            /\ Reads(v) \subseteq df[1].columns
            /\ \A i \in 1..Len(df[1].rows) : df[1].rows[i]["Account"] # "Sales")
              => (IsEmpty(view[v][1]) /\ diag[v] = NoError)
        /\ diag[v] # NoError => rendered[v] # "nodata"

(***************************************************************************)
(* The sums of the views and of the metrics                                *)
(***************************************************************************)

\* The numeric month cells of one row of table t added up, each in absolute
\* value when a is TRUE; cells that are not numbers add nothing.
RowTotal(t, r, a) ==
    LET ms == SelectSeq(all_months, LAMBDA m : m \in t.columns)
    IN  SumNum([i \in 1..Len(ms) |->
                   IF a /\ r[ms[i]].kind = "num"
                   THEN Num(Abs(r[ms[i]].val)) ELSE r[ms[i]]])

RECURSIVE RowsTotal(_, _, _)
RowsTotal(t, rows, a) ==
    IF rows = <<>> THEN 0
    ELSE RowTotal(t, Head(rows), a) + RowsTotal(t, Tail(rows), a)

OutTotal(f) == SumNum([i \in 1..Len(f.rows) |-> f.rows[i]["sales"]])

AllNumeric(t) ==
    \A i \in 1..Len(t.rows) : \A m \in MonthSet \cap t.columns :
        t.rows[i][m].kind = "num"

\* The rows each aggregated view is made from.
SalesRows(t) ==
    SelectSeq(t.rows, LAMBDA r : r["Year"] = 2023 /\ r["Account"] = "Sales")

YearlyRows(t) ==
    SelectSeq(t.rows,
              LAMBDA r : r["Scenario"] = "Actuals" /\ r["Account"] # "Sales")

SameKey(x, y, ks) == \A k \in ks : x[k] = y[k]

\* Output frame out is the per-key sum of the rows src of t on the keys ks.
IsGroupSum(t, out, src, ks, a) ==
    /\ OutTotal(out) = RowsTotal(t, src, a)
    /\ \A i \in 1..Len(out.rows) :
          out.rows[i]["sales"] =
              Num(RowsTotal(t, SelectSeq(src,
                      LAMBDA r : SameKey(r, out.rows[i], ks)), a))
    /\ \A i, j \in 1..Len(out.rows) :
          SameKey(out.rows[i], out.rows[j], ks) => i = j
    /\ \A i \in 1..Len(src) : \E j \in 1..Len(out.rows) :
          SameKey(src[i], out.rows[j], ks)

\* C8: every value of the yearly-by-account view is a number >= 0, made of
\* the absolute month cells of the Actuals rows of its account and year, and
\* no row of it has Account = 'Sales'.
C8_YearlyNonNegative ==
    view["process_yearly_account_data"] # None =>
        LET out == view["process_yearly_account_data"][1]
        IN  \A i \in 1..Len(out.rows) :
              /\ out.rows[i]["sales"].kind = "num"
              /\ out.rows[i]["sales"].val >= 0
              /\ out.rows[i]["Account"] # "Sales"
              /\ \E j \in 1..Len(df[1].rows) :
                    /\ df[1].rows[j]["Scenario"] = "Actuals"
                    /\ SameKey(df[1].rows[j], out.rows[i], {"Account", "Year"})
              /\ out.rows[i]["sales"].val =
                    RowsTotal(df[1],
                        SelectSeq(df[1].rows,
                            LAMBDA r : /\ r["Scenario"] = "Actuals"
                                       /\ SameKey(r, out.rows[i],
                                                  {"Account", "Year"})),
                        TRUE)

\* The yearly view holds a positive value for a group one of whose Actuals
\* rows has a negative January, next to a row of another scenario.
C8_Witness ==
    /\ view["process_yearly_account_data"] # None
    /\ Len(view["process_yearly_account_data"][1].rows) = 1
    /\ view["process_yearly_account_data"][1].rows[1]["sales"].val > 0
    /\ Len(df[1].rows) = 2
    /\ df[1].rows[1]["Scenario"] = "Actuals"
    /\ df[1].rows[1]["Account"] = "Marketing"
    /\ df[1].rows[1]["Jan"] = Num(-5)
    /\ df[1].rows[2]["Scenario"] = "Budget"
    /\ df[1].rows[2]["Account"] = "Marketing"

\* C9: on an all-numeric table that has the key columns, a month column and
\* the columns a view reads, the sales-by-unit view is the per-(Scenario, business_unit) sum of the month
\* cells of the 2023 Sales rows and the yearly view the per-(Account, Year)
\* sum of the absolute month cells of the Actuals rows other than Sales:
\* totals agree, every row is the sum of its group, no key repeats and
\* every group has its row.
C9_SumConservation ==
    (df # None /\ AllNumeric(df[1]) /\ ValidSchema(df[1])) =>
        /\ (/\ view["process_sales_data_by_unit"] # None
            /\ Reads("process_sales_data_by_unit") \subseteq df[1].columns) =>
              /\ diag["process_sales_data_by_unit"] = NoError
              /\ IsGroupSum(df[1], view["process_sales_data_by_unit"][1],
                            SalesRows(df[1]), {"Scenario", "business_unit"},
                            FALSE)
        /\ (/\ view["process_yearly_account_data"] # None
            /\ Reads("process_yearly_account_data") \subseteq df[1].columns) =>
              /\ diag["process_yearly_account_data"] = NoError
              /\ IsGroupSum(df[1], view["process_yearly_account_data"][1],
                            YearlyRows(df[1]), {"Account", "Year"}, TRUE)

\* Both aggregated views were computed on an all-numeric table; the
\* sales-by-unit view holds one row summed from two 2023 Sales rows of the
\* same scenario and unit, one of them with a negative cell.
C9_Witness ==
    /\ pc = "button"
    /\ AllNumeric(df[1])
    /\ Len(df[1].rows) = 2
    /\ Len(SalesRows(df[1])) = 2
    /\ df[1].rows[1]["Jan"] = Num(-5)
    /\ df[1].rows[2]["Jan"] = Num(3)
    /\ Len(view["process_sales_data_by_unit"][1].rows) = 1
    /\ view["process_sales_data_by_unit"][1].rows[1]["sales"] = Num(4)

\* C10: on a table that has every column, a month cell that is not a number
\* adds 0 to each sum and causes no error: the sales-by-unit and yearly
\* views are the per-key sums of the numeric cells, accounts_receivable and
\* accounts_payable are the absolute sums of the numeric cells of their
\* rows, and no fallback takes their place.
C10_NonNumericAddsZero ==
    (df # None /\ AllColumns \subseteq df[1].columns) =>
        /\ view["process_sales_data_by_unit"] # None =>
              /\ diag["process_sales_data_by_unit"] = NoError
              /\ IsGroupSum(df[1], view["process_sales_data_by_unit"][1],
                            SalesRows(df[1]), {"Scenario", "business_unit"},
                            FALSE)
        /\ view["process_yearly_account_data"] # None =>
              /\ diag["process_yearly_account_data"] = NoError
              /\ IsGroupSum(df[1], view["process_yearly_account_data"][1],
                            YearlyRows(df[1]), {"Account", "Year"}, TRUE)
        /\ metrics # None =>
              /\ diag["calculate_metrics"] = NoError
              /\ metrics[1].accounts_receivable =
                    Abs(RowsTotal(df[1],
                        SelectSeq(df[1].rows,
                            LAMBDA r : r["Account"] = "Sales"), FALSE))
              /\ metrics[1].accounts_payable =
                    Abs(RowsTotal(df[1],
                        SelectSeq(df[1].rows,
                            LAMBDA r : r["Account"] \in
                                {"Marketing", "Operations"}), FALSE))

(***************************************************************************)
(* The CSV fallback                                                        *)
(***************************************************************************)

\* C11: in a run made with credentials, a URL and a readable CSV file all
\* given, the dashboard has a table: the spreadsheet's, or, when the
\* Google Sheets load produced none, the table of the uploaded CSV; the run
\* does not stop with no data.
C11_CsvFallbackUsed ==
    (/\ pc # "load"
     /\ uploaded_json # None
     /\ sheets_url # ""
     /\ uploaded_csv # None
     /\ CsvContent(uploaded_csv[1]) # None) =>
        /\ pc # "stopped"
        /\ df # None
        /\ \/ data_source = "Google Sheets"
           \/ data_source = "CSV Upload" /\ df = CsvContent(uploaded_csv[1])

====
